---- MODULE Spec2Model ----
(***************************************************************************)
(* A model of the jenkobs reactor (src/reactor/reactor.go): loading the    *)
(* action configuration, connecting to the AMQP bus, and fanning every     *)
(* delivery out to every loaded action on its own goroutine.               *)
(***************************************************************************)
EXTENDS Integers, Sequences, FiniteSets, TLC

(* ------------------------------ bounds --------------------------------- *)
\* longest configuration document (top-level entries)
MaxEntries == 2
\* number of messages the bus delivers during one Run
MaxDeliveries == 2
\* number of OnMessage invocations whose effect never returns
MaxHung == 1

(* ------------------- configuration document values --------------------- *)
\* A YAML scalar as yaml.v2 decodes it into interface{}: absent, a string,
\* or something that is not a string (an integer here).
Nil == [t |-> "nil", s |-> ""]
Str(s) == [t |-> "str", s |-> s]
NonStr == [t |-> "int", s |-> ""]

\* The nested `action` value: absent, or a mapping given as its key/value pairs.
NoMap == [t |-> "nil", m |-> <<>>]
Map(pairs) == [t |-> "map", m |-> pairs]
KV(k, v) == [k |-> k, v |-> v]

\* The value under the project key.
Body(pkg, status, arch, action) ==
    [package |-> pkg, status |-> status, arch |-> arch, action |-> action]

\* A top-level item of the document: a single-key mapping project -> body,
\* or a scalar where a mapping is expected.
Entry(project, body) == [t |-> "entry", project |-> project, body |-> body]
Scalar == [t |-> "scalar", project |-> "", body |-> Body(Nil, Nil, Nil, NoMap)]

ACTION_TYPE_CI == "ci-call"
ACTION_TYPE_SHELL == "shell"

CiEntry ==
    Entry("proj1", Body(Str("pkgA"), Str("ok"), Str("x86_64"),
          Map(<<KV("type", Str(ACTION_TYPE_CI)), KV("url", Str("http://ci/job"))>>)))
ShellEntry ==
    Entry("proj1", Body(Str("pkgA"), Str("failed"), Str("x86_64"),
          Map(<<KV("cmd", Str("notify.sh")), KV("type", Str(ACTION_TYPE_SHELL))>>)))
NoTypeEntry ==
    Entry("proj2", Body(Str("pkgB"), Str("ok"), Str("x86_64"),
          Map(<<KV("cmd", Str("notify.sh"))>>)))
EmptyTypeEntry ==
    Entry("proj2", Body(Str("pkgB"), Str("ok"), Str("x86_64"),
          Map(<<KV("type", Str("")), KV("cmd", Str("notify.sh"))>>)))
UnknownTypeEntry ==
    Entry("proj2", Body(Str("pkgB"), Str("ok"), Str("x86_64"),
          Map(<<KV("type", Str("mail")), KV("to", Str("ops"))>>)))
NoPackageEntry ==
    Entry("proj3", Body(Nil, Str("ok"), Str("x86_64"),
          Map(<<KV("type", Str(ACTION_TYPE_SHELL)), KV("cmd", Str("notify.sh"))>>)))
NoStatusEntry ==
    Entry("proj3", Body(Str("pkgC"), Nil, Str("x86_64"),
          Map(<<KV("type", Str(ACTION_TYPE_SHELL)), KV("cmd", Str("notify.sh"))>>)))
NoArchEntry ==
    Entry("proj3", Body(Str("pkgC"), Str("ok"), Nil,
          Map(<<KV("type", Str(ACTION_TYPE_CI)), KV("url", Str("http://ci/job"))>>)))
NoActionEntry ==
    Entry("proj3", Body(Str("pkgC"), Str("ok"), Str("x86_64"), NoMap))
NonStringParamEntry ==
    Entry("proj3", Body(Str("pkgC"), Str("ok"), Str("x86_64"),
          Map(<<KV("type", Str(ACTION_TYPE_CI)), KV("timeout", NonStr)>>)))

\* entries with every required field present and string-valued
WellFormedEntries ==
    {CiEntry, ShellEntry, NoTypeEntry, EmptyTypeEntry, UnknownTypeEntry}
\* entries that cannot be turned into an ActionInfo
MalformedEntries ==
    {NoPackageEntry, NoStatusEntry, NoArchEntry, NoActionEntry, NonStringParamEntry}
Items == WellFormedEntries \cup MalformedEntries \cup {Scalar}

SeqsUpTo(S, n) == UNION {[1..k -> S] : k \in 0..n}

\* The bytes of the configuration file: a YAML sequence of items, or bytes
\* that are no YAML sequence at all.
Documents ==
    {[t |-> "seq", items |-> its] : its \in SeqsUpTo(Items, MaxEntries)}
        \cup {[t |-> "garbage", items |-> <<>>]}

(* ------------------------------- state --------------------------------- *)
VARIABLES
    pc,         \* position of the main goroutine
    proc,       \* the process: "running", "exited" (os.Exit), "panicked", "killed"
    user, password, fqdn, port,     \* Reactor credentials
    conn, channel, queue,           \* Reactor session handles
    actions,                        \* Reactor.actions
    data, parseErr, idx, loaded,    \* locals of LoadActions
    connectErr, \* what connectAMQP returned: "unset" until it returns, "nil", or the failed step
    runErr,     \* what Run returned: "unset" until it returns
    netOps,     \* the network operations performed so far, in order
    autoAck,    \* the autoAck flag the consumer was registered with
    msgChannel, \* deliveries sent by the bus, not yet taken by the receive loop
    delivered,  \* number of deliveries the bus has sent
    acked,      \* delivery tags the bus regards as acknowledged
    connLost,   \* the connection has dropped
    loopPc,     \* the receive goroutine: "none", "ranging", "exited"
    dispatch,   \* per delivery tag: the onDelivery goroutine (its copy, its loop index)
    inv         \* per delivery tag and action index: the OnMessage goroutine

loadVars == <<data, parseErr, idx, loaded>>
credVars == <<user, password, fqdn, port>>
sessVars == <<conn, channel, queue>>
busVars == <<autoAck, msgChannel, delivered, acked, connLost>>
workVars == <<loopPc, dispatch, inv>>
vars == <<pc, proc, credVars, sessVars, actions, loadVars, connectErr, runErr, netOps,
          busVars, workVars>>

Tags == 1..MaxDeliveries
Slots == 1..MaxEntries

\* one network operation and whether it succeeded
Op(name, ok) == [op |-> name, ok |-> ok]

\* the body of a delivery: the build event it announces
Event(project, package, status, arch) ==
    [Project |-> project, Package |-> package, Status |-> status, Architecture |-> arch]

NoDelivery == [tag |-> 0, body |-> Event("", "", "", "")]
\* an OnMessage goroutine: how often it was started, where it is, the delivery
\* its argument points to, and how often it has invoked its effect
NoInvocation == [starts |-> 0, state |-> "none", arg |-> 0, effects |-> 0]

\* NewReactor: an empty action list, zero-valued fields.
Init ==
    /\ pc = "new"
    /\ proc = "running"
    /\ user = "" /\ password = "" /\ fqdn = "" /\ port = 0
    /\ conn = "nil" /\ channel = "nil" /\ queue = ""
    /\ actions = <<>>
    /\ data = <<>> /\ parseErr = FALSE /\ idx = 0 /\ loaded = 0
    /\ connectErr = "unset"
    /\ runErr = "unset"
    /\ netOps = <<>>
    /\ autoAck = FALSE
    /\ msgChannel = <<>> /\ delivered = 0 /\ acked = {} /\ connLost = FALSE
    /\ loopPc = "none"
    /\ dispatch = [d \in Tags |-> [delivery |-> NoDelivery, idx |-> 0]]
    /\ inv = [d \in Tags |-> [a \in Slots |-> NoInvocation]]

(* ---------------------------- SetAMQPDial ------------------------------ *)
Users == {"", "guest"}
Hosts == {"", "bus.example.org"}
Ports == {0, 5671}

SetAMQPDial ==
    /\ proc = "running" /\ pc = "new"
    /\ \E u \in Users, h \in Hosts, p \in Ports :
          /\ user' = u /\ password' = "secret" /\ fqdn' = h /\ port' = p
    /\ pc' = "configured"
    /\ UNCHANGED <<proc, sessVars, actions, loadVars, connectErr, runErr, netOps, busVars, workVars>>

(* ----------------------------- LoadActions ----------------------------- *)
\* yaml.Unmarshal into []map[string]interface{}: bytes that are no sequence
\* decode to nothing; in a sequence every item that is a mapping is decoded
\* and every other item is dropped and reported as an error.
IsMapping(item) == item.t = "entry"
Unmarshal(content) ==
    IF content.t = "seq"
    THEN [err |-> \E i \in 1..Len(content.items) : ~IsMapping(content.items[i]),
          data |-> SelectSeq(content.items, IsMapping)]
    ELSE [err |-> TRUE, data |-> <<>>]

NoInfo ==
    [Project |-> "", Package |-> "", Status |-> "", Architecture |-> "",
     Params |-> {}, Type |-> ""]

\* the value stored under key k of a mapping, Nil when the key is absent
Lookup(m, k) ==
    IF \E i \in 1..Len(m) : m[i].k = k
    THEN (CHOOSE p \in {m[i] : i \in 1..Len(m)} : p.k = k).v
    ELSE Nil

\* getAction: "panic" when a type assertion fails, "nil" when the entry has
\* no action type, else the ActionInfo.
getAction(actionSet) ==
    LET body == actionSet.body
        m == body.action.m
        actionType == Lookup(m, "type")
        params == {<<m[i].k, m[i].v.s>> : i \in {j \in 1..Len(m) : m[j].k # "type"}}
        assertionFails ==
            \/ body.action.t # "map"
            \/ \E i \in 1..Len(m) : m[i].v.t # "str"
            \/ body.package.t # "str"
            \/ body.status.t # "str"
            \/ body.arch.t # "str"
    IN  IF assertionFails
        THEN [res |-> "panic", info |-> NoInfo]
        ELSE IF actionType.s = ""
        THEN [res |-> "nil", info |-> NoInfo]
        ELSE [res |-> "ok",
              info |-> [Project |-> actionSet.project,
                        Package |-> body.package.s,
                        Status |-> body.status.s,
                        Architecture |-> body.arch.s,
                        Params |-> params,
                        Type |-> actionType.s]]

\* The Action variants and their LoadAction.
NewHTTPAction == [kind |-> "http", info |-> NoInfo]
NewShellAction == [kind |-> "shell", info |-> NoInfo]
LoadAction(action, info) == [action EXCEPT !.info = info]

\* ioutil.ReadFile, then yaml.Unmarshal.
LoadActionsRead ==
    /\ proc = "running" /\ pc = "configured"
    /\ \/ /\ proc' = "exited"
          /\ UNCHANGED <<pc, loadVars>>
       \/ \E content \in Documents :
             /\ data' = Unmarshal(content).data
             /\ parseErr' = Unmarshal(content).err
             /\ idx' = 1 /\ loaded' = 0
             /\ pc' = "loading"
             /\ UNCHANGED proc
    /\ UNCHANGED <<credVars, sessVars, actions, connectErr, runErr, netOps, busVars, workVars>>

\* the switch with the shell case constructing the HTTP variant
InstantiateAlwaysHTTP(info) ==
    IF info.Type = ACTION_TYPE_CI THEN <<LoadAction(NewHTTPAction, info)>>
    ELSE IF info.Type = ACTION_TYPE_SHELL THEN <<LoadAction(NewHTTPAction, info)>>
    ELSE <<>>

\* the switch with the shell case as the default case
InstantiateDefaultShell(info) ==
    IF info.Type = ACTION_TYPE_CI THEN <<LoadAction(NewHTTPAction, info)>>
    ELSE <<LoadAction(NewShellAction, info)>>

\* what one iteration of the loop appends for an ActionInfo
Instantiate(info) ==
    IF info.Type = ACTION_TYPE_CI THEN <<LoadAction(NewHTTPAction, info)>>
    ELSE IF info.Type = ACTION_TYPE_SHELL THEN <<LoadAction(NewShellAction, info)>>
    ELSE <<>>

\* one iteration of `for _, actionSet := range data`
LoadActionsEntry ==
    /\ proc = "running" /\ pc = "loading" /\ idx <= Len(data)
    /\ LET got == getAction(data[idx])
       IN  IF got.res = "panic"
           THEN /\ proc' = "panicked"
                /\ UNCHANGED <<actions, loadVars>>
           ELSE /\ actions' = actions \o (IF got.res = "ok" THEN Instantiate(got.info) ELSE <<>>)
                /\ loaded' = loaded + Len(actions') - Len(actions)
                /\ idx' = idx + 1
                /\ UNCHANGED <<proc, data, parseErr>>
    /\ UNCHANGED <<pc, credVars, sessVars, connectErr, runErr, netOps, busVars, workVars>>

\* the loop has ended: log the count and return; the locals go out of scope
LoadActionsReturn ==
    /\ proc = "running" /\ pc = "loading" /\ idx > Len(data)
    /\ pc' = "loaded"
    /\ data' = <<>> /\ parseErr' = FALSE /\ idx' = 0 /\ loaded' = 0
    /\ UNCHANGED <<proc, credVars, sessVars, actions, connectErr, runErr, netOps, busVars, workVars>>

(* ------------------------------ connectAMQP ---------------------------- *)
\* the connection string handed to amqp.Dial
ConnStr ==
    IF port > 0
    THEN <<"amqps://", user, ":", password, "@", fqdn, ":", port, "/">>
    ELSE <<"amqps://", user, ":", password, "@", fqdn, "/">>

\* the guard with && in place of ||
MissingCredentialsBoth == user = "" /\ fqdn = ""

MissingCredentials == user = "" \/ fqdn = ""

\* Run handing the error it met to its caller
RunResultPropagating(err) == err

\* what Run returns after meeting the error err ("nil" for none): always nil
RunResult(err) == "nil"

\* connectAMQP starting from an empty action list
connectAMQPResetting ==
    /\ proc = "running" /\ pc = "loaded"
    /\ pc' = IF MissingCredentials THEN "returned" ELSE "dial"
    /\ connectErr' = IF MissingCredentials THEN "missing" ELSE connectErr
    /\ runErr' = IF MissingCredentials THEN RunResult("missing") ELSE runErr
    /\ actions' = <<>>
    /\ UNCHANGED <<proc, credVars, sessVars, loadVars, netOps, busVars, workVars>>

\* Run calls connectAMQP, which first checks the credentials; on an error
\* Run returns at once (nothing was deferred).
connectAMQP ==
    /\ proc = "running" /\ pc = "loaded"
    /\ pc' = IF MissingCredentials THEN "returned" ELSE "dial"
    /\ connectErr' = IF MissingCredentials THEN "missing" ELSE connectErr
    /\ runErr' = IF MissingCredentials THEN RunResult("missing") ELSE runErr
    /\ UNCHANGED <<proc, credVars, sessVars, actions, loadVars, netOps, busVars, workVars>>

\* amqp.Dial tried a second time when the first attempt fails
DialRetrying ==
    /\ proc = "running" /\ pc = "dial"
    /\ \E first \in BOOLEAN, ok \in BOOLEAN :
          /\ netOps' = IF first THEN Append(netOps, Op("dial", TRUE))
                                ELSE netOps \o <<Op("dial", FALSE), Op("dial", ok)>>
          /\ conn' = IF first \/ ok THEN "open" ELSE "nil"
          /\ pc' = IF first \/ ok THEN "channel" ELSE "returned"
          /\ connectErr' = IF first \/ ok THEN connectErr ELSE "dial"
          /\ runErr' = IF first \/ ok THEN runErr ELSE RunResult("dial")
    /\ UNCHANGED <<proc, credVars, channel, queue, actions, loadVars, busVars, workVars>>

\* rtr.conn, err = amqp.Dial(connstr)
Dial ==
    /\ proc = "running" /\ pc = "dial"
    /\ \E ok \in BOOLEAN :
          /\ netOps' = Append(netOps, Op("dial", ok))
          /\ conn' = IF ok THEN "open" ELSE "nil"
          /\ pc' = IF ok THEN "channel" ELSE "returned"
          /\ connectErr' = IF ok THEN connectErr ELSE "dial"
          /\ runErr' = IF ok THEN runErr ELSE RunResult("dial")
    /\ UNCHANGED <<proc, credVars, channel, queue, actions, loadVars, busVars, workVars>>

\* rtr.channel, err = rtr.conn.Channel(): the error is overwritten by the
\* next statement, so a failure leaves a nil channel and goes on.
Channel ==
    /\ proc = "running" /\ pc = "channel"
    /\ \E ok \in BOOLEAN :
          /\ netOps' = Append(netOps, Op("channel", ok))
          /\ channel' = IF ok THEN "open" ELSE "nil"
    /\ pc' = "exchange"
    /\ UNCHANGED <<proc, credVars, conn, queue, actions, loadVars, connectErr, runErr, busVars, workVars>>

\* rtr.channel.ExchangeDeclarePassive(...): a method call on a nil channel
\* dereferences nil and panics before anything is sent.
ExchangeDeclarePassive ==
    /\ proc = "running" /\ pc = "exchange"
    /\ IF channel = "nil"
       THEN /\ proc' = "panicked"
            /\ UNCHANGED <<pc, connectErr, runErr, netOps>>
       ELSE /\ \E ok \in BOOLEAN :
                  /\ netOps' = Append(netOps, Op("exchange", ok))
                  /\ pc' = IF ok THEN "queue" ELSE "returned"
                  /\ connectErr' = IF ok THEN connectErr ELSE "exchange"
                  /\ runErr' = IF ok THEN runErr ELSE RunResult("exchange")
            /\ UNCHANGED proc
    /\ UNCHANGED <<credVars, sessVars, actions, loadVars, busVars, workVars>>

\* QueueDeclare without the `return err`
QueueDeclareIgnoringError ==
    /\ proc = "running" /\ pc = "queue"
    /\ \E ok \in BOOLEAN :
          /\ netOps' = Append(netOps, Op("queue", ok))
          /\ queue' = IF ok THEN "amq.gen" ELSE ""
          /\ pc' = "bind"
    /\ UNCHANGED <<proc, credVars, conn, channel, actions, loadVars, connectErr, runErr, busVars, workVars>>

\* rtr.queue, err = rtr.channel.QueueDeclare("", ...)
QueueDeclare ==
    /\ proc = "running" /\ pc = "queue"
    /\ \E ok \in BOOLEAN :
          /\ netOps' = Append(netOps, Op("queue", ok))
          /\ queue' = IF ok THEN "amq.gen" ELSE ""
          /\ pc' = IF ok THEN "bind" ELSE "returned"
          /\ connectErr' = IF ok THEN connectErr ELSE "queue"
          /\ runErr' = IF ok THEN runErr ELSE RunResult("queue")
    /\ UNCHANGED <<proc, credVars, conn, channel, actions, loadVars, busVars, workVars>>

\* rtr.channel.QueueBind(rtr.queue.Name, "#", "pubsub", ...); on success
\* connectAMQP returns nil and Run defers conn.Close.
QueueBind ==
    /\ proc = "running" /\ pc = "bind"
    /\ \E ok \in BOOLEAN :
          /\ netOps' = Append(netOps, Op("bind", ok))
          /\ pc' = IF ok THEN "consume" ELSE "returned"
          /\ connectErr' = IF ok THEN "nil" ELSE "bind"
          /\ runErr' = IF ok THEN runErr ELSE RunResult("bind")
    /\ UNCHANGED <<proc, credVars, sessVars, actions, loadVars, busVars, workVars>>

(* -------------------------------- consume ------------------------------ *)
\* Consume registered with autoAck = false
ConsumeManualAck == FALSE

\* the autoAck argument of channel.Consume
ConsumeAutoAck == TRUE

\* rtr.channel.Consume(...): on an error consume returns it, Run logs it and
\* returns, and the deferred conn.Close runs. Otherwise the receive goroutine
\* is started and the caller blocks on `looper`, a channel nothing ever
\* sends on or closes: no step leaves "blocked".
consume ==
    /\ proc = "running" /\ pc = "consume"
    /\ \E ok \in BOOLEAN :
          IF ok
          THEN /\ netOps' = Append(netOps, Op("consume", TRUE))
               /\ autoAck' = ConsumeAutoAck
               /\ loopPc' = "ranging"
               /\ pc' = "blocked"
               /\ UNCHANGED <<conn, runErr>>
          ELSE /\ netOps' = netOps \o <<Op("consume", FALSE), Op("close", TRUE)>>
               /\ conn' = "closed"
               /\ pc' = "returned"
               /\ runErr' = RunResult("consume")
               /\ UNCHANGED <<autoAck, loopPc>>
    /\ UNCHANGED <<proc, credVars, channel, queue, actions, loadVars, connectErr,
                   msgChannel, delivered, acked, connLost, dispatch, inv>>

(* --------------------------------- the bus ----------------------------- *)
Bodies == {Event("proj1", "pkgA", "ok", "x86_64")}

\* The broker sends the next message of the queue to the registered
\* consumer; with autoAck it regards the message as acknowledged on sending.
Deliver ==
    /\ proc = "running" /\ pc = "blocked" /\ ~connLost
    /\ delivered < MaxDeliveries
    /\ \E b \in Bodies :
          msgChannel' = Append(msgChannel, [tag |-> delivered + 1, body |-> b])
    /\ delivered' = delivered + 1
    /\ acked' = IF autoAck THEN acked \cup {delivered + 1} ELSE acked
    /\ UNCHANGED <<pc, proc, credVars, sessVars, actions, loadVars, connectErr, runErr, netOps,
                   autoAck, connLost, workVars>>

\* The connection drops: the library closes the delivery channel; deliveries
\* it had buffered but not yet handed over may be dropped.
ConnectionLost ==
    /\ proc = "running" /\ pc = "blocked" /\ ~connLost
    /\ connLost' = TRUE
    /\ \E k \in 0..Len(msgChannel) : msgChannel' = SubSeq(msgChannel, 1, k)
    /\ UNCHANGED <<pc, proc, credVars, sessVars, actions, loadVars, connectErr, runErr, netOps,
                   autoAck, delivered, acked, workVars>>

\* `for delivery := range msgChannel { go rtr.onDelivery(delivery) }`:
\* take the next delivery and start onDelivery on a copy of it.
ReceiveDelivery ==
    /\ proc = "running" /\ loopPc = "ranging"
    /\ msgChannel # <<>>
    /\ LET delivery == Head(msgChannel)
       IN  dispatch' = [dispatch EXCEPT ![delivery.tag] = [delivery |-> delivery, idx |-> 1]]
    /\ msgChannel' = Tail(msgChannel)
    /\ UNCHANGED <<pc, proc, credVars, sessVars, actions, loadVars, connectErr, runErr, netOps,
                   autoAck, delivered, acked, connLost, loopPc, inv>>

\* the delivery channel is closed and drained: the range loop ends and the
\* receive goroutine returns
ReceiveLoopExit ==
    /\ proc = "running" /\ loopPc = "ranging"
    /\ msgChannel = <<>> /\ connLost
    /\ loopPc' = "exited"
    /\ UNCHANGED <<pc, proc, credVars, sessVars, actions, loadVars, connectErr, runErr, netOps,
                   busVars, dispatch, inv>>

(* ------------------------------- onDelivery ---------------------------- *)
Taken(d) == dispatch[d].idx > 0
Dispatched(d) == dispatch[d].idx > Len(actions)

\* onDelivery stepping over every second action
onDeliverySkipping(d) ==
    /\ proc = "running"
    /\ Taken(d) /\ ~Dispatched(d)
    /\ LET a == dispatch[d].idx
       IN  /\ inv' = [inv EXCEPT ![d][a] =
                         [starts |-> @.starts + 1, state |-> "running", arg |-> d,
                          effects |-> @.effects]]
           /\ dispatch' = [dispatch EXCEPT ![d].idx = a + 2]
    /\ UNCHANGED <<pc, proc, credVars, sessVars, actions, loadVars, connectErr, runErr, netOps,
                   busVars, loopPc>>

\* onDelivery calling OnMessage instead of starting it with `go`: the next
\* action is reached only when the previous call has returned
onDeliverySynchronous(d) ==
    /\ proc = "running"
    /\ Taken(d) /\ ~Dispatched(d)
    /\ LET a == dispatch[d].idx
       IN  /\ IF a = 1 THEN TRUE ELSE inv[d][a - 1].state \in {"done", "failed"}
           /\ inv' = [inv EXCEPT ![d][a] =
                         [starts |-> @.starts + 1, state |-> "running", arg |-> d,
                          effects |-> @.effects]]
           /\ dispatch' = [dispatch EXCEPT ![d].idx = a + 1]
    /\ UNCHANGED <<pc, proc, credVars, sessVars, actions, loadVars, connectErr, runErr, netOps,
                   busVars, loopPc>>

\* onDelivery calling OnMessage itself and giving up on the delivery when the
\* call reports a failure
onDeliveryStopsOnFailure(d) ==
    /\ proc = "running"
    /\ Taken(d) /\ ~Dispatched(d)
    /\ LET a == dispatch[d].idx
           prev == IF a = 1 THEN "done" ELSE inv[d][a - 1].state
       IN  /\ prev \in {"done", "failed"}
           /\ IF prev = "failed"
              THEN /\ dispatch' = [dispatch EXCEPT ![d].idx = Len(actions) + 1]
                   /\ UNCHANGED inv
              ELSE /\ inv' = [inv EXCEPT ![d][a] =
                                 [starts |-> @.starts + 1, state |-> "running", arg |-> d,
                                  effects |-> @.effects]]
                   /\ dispatch' = [dispatch EXCEPT ![d].idx = a + 1]
    /\ UNCHANGED <<pc, proc, credVars, sessVars, actions, loadVars, connectErr, runErr, netOps,
                   busVars, loopPc>>

\* the OnMessage goroutines that were started and have not returned
InFlight == {<<d, a>> \in Tags \X Slots : inv[d][a].state \in {"running", "hung"}}

\* onDelivery starting a further OnMessage only while fewer of them are in
\* flight than there are actions
onDeliveryCapped(d) ==
    /\ proc = "running"
    /\ Taken(d) /\ ~Dispatched(d)
    /\ Cardinality(InFlight) < Len(actions)
    /\ LET a == dispatch[d].idx
       IN  /\ inv' = [inv EXCEPT ![d][a] =
                         [starts |-> @.starts + 1, state |-> "running", arg |-> d,
                          effects |-> @.effects]]
           /\ dispatch' = [dispatch EXCEPT ![d].idx = a + 1]
    /\ UNCHANGED <<pc, proc, credVars, sessVars, actions, loadVars, connectErr, runErr, netOps,
                   busVars, loopPc>>

\* the delivery the receive loop took last
LastTaken == CHOOSE d \in Tags : Taken(d) /\ \A e \in Tags : Taken(e) => e <= d

\* onDelivery taking a pointer to the receive loop's variable instead of
\* having its own copy: OnMessage is handed the delivery taken last
onDeliverySharedPointer(d) ==
    /\ proc = "running"
    /\ Taken(d) /\ ~Dispatched(d)
    /\ LET a == dispatch[d].idx
       IN  /\ inv' = [inv EXCEPT ![d][a] =
                         [starts |-> @.starts + 1, state |-> "running", arg |-> LastTaken,
                          effects |-> @.effects]]
           /\ dispatch' = [dispatch EXCEPT ![d].idx = a + 1]
    /\ UNCHANGED <<pc, proc, credVars, sessVars, actions, loadVars, connectErr, runErr, netOps,
                   busVars, loopPc>>

\* onDelivery waiting until the onDelivery of every earlier delivery has
\* gone through its actions
onDeliveryInOrder(d) ==
    /\ proc = "running"
    /\ Taken(d) /\ ~Dispatched(d)
    /\ \A e \in 1..(d - 1) : Dispatched(e)
    /\ LET a == dispatch[d].idx
       IN  /\ inv' = [inv EXCEPT ![d][a] =
                         [starts |-> @.starts + 1, state |-> "running", arg |-> d,
                          effects |-> @.effects]]
           /\ dispatch' = [dispatch EXCEPT ![d].idx = a + 1]
    /\ UNCHANGED <<pc, proc, credVars, sessVars, actions, loadVars, connectErr, runErr, netOps,
                   busVars, loopPc>>

\* one iteration of `for _, action := range rtr.actions`:
\* `go action.OnMessage(&delivery)`, then on to the next action
onDelivery(d) ==
    /\ proc = "running"
    /\ Taken(d) /\ ~Dispatched(d)
    /\ LET a == dispatch[d].idx
       IN  /\ inv' = [inv EXCEPT ![d][a] =
                         [starts |-> @.starts + 1, state |-> "running", arg |-> d,
                          effects |-> @.effects]]
           /\ dispatch' = [dispatch EXCEPT ![d].idx = a + 1]
    /\ UNCHANGED <<pc, proc, credVars, sessVars, actions, loadVars, connectErr, runErr, netOps,
                   busVars, loopPc>>

(* -------------------------------- OnMessage ---------------------------- *)
Hung == {<<d, a>> \in Tags \X Slots : inv[d][a].state = "hung"}

\* the criteria check without the comparison of the status
MatchesIgnoringStatus(info, event) ==
    /\ info.Project = "" \/ info.Project = event.Project
    /\ info.Package = "" \/ info.Package = event.Package
    /\ info.Architecture = "" \/ info.Architecture = event.Architecture

\* an event is relevant to an Action when it agrees with every non-empty
\* criterion of the Action's ActionInfo
Matches(info, event) ==
    /\ info.Project = "" \/ info.Project = event.Project
    /\ info.Package = "" \/ info.Package = event.Package
    /\ info.Status = "" \/ info.Status = event.Status
    /\ info.Architecture = "" \/ info.Architecture = event.Architecture

\* the delivery an OnMessage goroutine reads through its argument
Observed(d, a) == dispatch[inv[d][a].arg].delivery

\* the environment of the effects: the endpoint (or command) is out of order
\* while the first delivery is handled and in order afterwards
EffectFails(delivery) == delivery.tag = 1

\* the action's OnMessage returns: on a match it has invoked its effect once,
\* whose failure is only logged; a non-matching event is ignored
OnMessageReturn(d, a) ==
    /\ proc = "running"
    /\ inv[d][a].state = "running"
    /\ LET matched == Matches(actions[a].info, Observed(d, a).body)
       IN  inv' = [inv EXCEPT
                     ![d][a].state =
                         IF matched /\ EffectFails(Observed(d, a)) THEN "failed" ELSE "done",
                     ![d][a].effects = IF matched THEN @ + 1 ELSE @]
    /\ UNCHANGED <<pc, proc, credVars, sessVars, actions, loadVars, connectErr, runErr, netOps,
                   busVars, loopPc, dispatch>>

\* the event matched and the action's effect (an outbound call, a command)
\* never returns
OnMessageHang(d, a) ==
    /\ proc = "running"
    /\ inv[d][a].state = "running"
    /\ Matches(actions[a].info, Observed(d, a).body)
    /\ Cardinality(Hung) < MaxHung
    /\ inv' = [inv EXCEPT ![d][a].state = "hung", ![d][a].effects = @ + 1]
    /\ UNCHANGED <<pc, proc, credVars, sessVars, actions, loadVars, connectErr, runErr, netOps,
                   busVars, loopPc, dispatch>>

\* the process is stopped from outside
Shutdown ==
    /\ proc = "running"
    /\ proc' = "killed"
    /\ UNCHANGED <<pc, credVars, sessVars, actions, loadVars, connectErr, runErr, netOps, busVars, workVars>>

Next ==
    \/ SetAMQPDial
    \/ LoadActionsRead
    \/ LoadActionsEntry
    \/ LoadActionsReturn
    \/ connectAMQP
    \/ Dial
    \/ Channel
    \/ ExchangeDeclarePassive
    \/ QueueDeclare
    \/ QueueBind
    \/ consume
    \/ Deliver
    \/ ConnectionLost
    \/ ReceiveDelivery
    \/ ReceiveLoopExit
    \/ \E d \in Tags : onDelivery(d)
    \/ \E d \in Tags, a \in Slots : OnMessageReturn(d, a)
    \/ \E d \in Tags, a \in Slots : OnMessageHang(d, a)
    \/ Shutdown

Spec == Init /\ [][Next]_vars

(* ----------------------------- scheduling ------------------------------ *)
\* The Go scheduler runs every runnable goroutine eventually. The bus, the
\* connection, a hanging effect and an outside kill are under no obligation.
Fairness ==
    /\ WF_vars(SetAMQPDial)
    /\ WF_vars(LoadActionsRead)
    /\ WF_vars(LoadActionsEntry)
    /\ WF_vars(LoadActionsReturn)
    /\ WF_vars(connectAMQP)
    /\ WF_vars(Dial)
    /\ WF_vars(Channel)
    /\ WF_vars(ExchangeDeclarePassive)
    /\ WF_vars(QueueDeclare)
    /\ WF_vars(QueueBind)
    /\ WF_vars(consume)
    /\ WF_vars(ReceiveDelivery)
    /\ WF_vars(ReceiveLoopExit)
    /\ \A d \in Tags : WF_vars(onDelivery(d))
    /\ \A d \in Tags, a \in Slots : WF_vars(OnMessageReturn(d, a))

FairSpec == Spec /\ Fairness

(* ------------------- one event against declared criteria --------------- *)
\* A Reactor that has loaded two Actions for the same project, package and
\* architecture with different status criteria - an HTTP action with the
\* criteria info and a shell action with the other status - has connected and
\* subscribed, and has one event waiting in its delivery channel.
Projects == {"proj1", "proj2"}
Packages == {"pkgA", "pkgB"}
Statuses == {"ok", "failed"}
Architectures == {"x86_64", "aarch64"}
Events == {Event(p, k, st, ar) : p \in Projects, k \in Packages, st \in Statuses,
                                 ar \in Architectures}
\* a criterion may be left empty in the configuration
Infos ==
    {[Project |-> p, Package |-> k, Status |-> st, Architecture |-> ar,
      Params |-> {}, Type |-> ACTION_TYPE_CI] :
        p \in Projects \cup {""}, k \in Packages \cup {""}, st \in Statuses,
        ar \in Architectures \cup {""}}
OtherStatus(st) == CHOOSE o \in Statuses : o # st

MatchInit ==
    /\ pc = "blocked"
    /\ proc = "running"
    /\ user = "guest" /\ password = "secret" /\ fqdn = "bus.example.org" /\ port = 0
    /\ conn = "open" /\ channel = "open" /\ queue = "amq.gen"
    /\ \E info \in Infos :
          actions = <<LoadAction(NewHTTPAction, info),
                      LoadAction(NewShellAction,
                                 [info EXCEPT !.Status = OtherStatus(info.Status),
                                              !.Type = ACTION_TYPE_SHELL])>>
    /\ data = <<>> /\ parseErr = FALSE /\ idx = 0 /\ loaded = 0
    /\ connectErr = "nil"
    /\ runErr = "unset"
    /\ netOps = <<Op("dial", TRUE), Op("channel", TRUE), Op("exchange", TRUE),
                  Op("queue", TRUE), Op("bind", TRUE), Op("consume", TRUE)>>
    /\ autoAck = ConsumeAutoAck
    /\ \E event \in Events : msgChannel = <<[tag |-> 1, body |-> event]>>
    /\ delivered = 1 /\ acked = {1} /\ connLost = FALSE
    /\ loopPc = "ranging"
    /\ dispatch = [d \in Tags |-> [delivery |-> NoDelivery, idx |-> 0]]
    /\ inv = [d \in Tags |-> [a \in Slots |-> NoInvocation]]

MatchNext ==
    \/ ReceiveDelivery
    \/ \E d \in Tags : onDelivery(d)
    \/ \E d \in Tags, a \in Slots : OnMessageReturn(d, a)
    \/ \E d \in Tags, a \in Slots : OnMessageHang(d, a)

MatchSpec == MatchInit /\ [][MatchNext]_vars

(* ------------------------------- claims -------------------------------- *)
Loaded(a) == a <= Len(actions)
Returned(d, a) == inv[d][a].state \in {"done", "failed"}
InChannel(d) == \E i \in 1..Len(msgChannel) : msgChannel[i].tag = d

\* C1: for every delivery the receive loop has taken and every loaded action,
\* OnMessage is started at most once, exactly the actions before onDelivery's
\* loop index have been started (all of them once the loop has ended), nothing
\* is started for a delivery that was not taken or for a slot that holds no
\* action; and whenever a delivery is waiting the receive loop can take it,
\* whatever the state of the invocations already started.
C1_FanOutExactlyOnce ==
    /\ \A d \in Tags, a \in Slots :
          inv[d][a].starts =
              IF Taken(d) /\ Loaded(a) /\ a < dispatch[d].idx THEN 1 ELSE 0
    /\ \A d \in Tags : Taken(d) => dispatch[d].idx \in 1..(Len(actions) + 1)
    /\ \A d \in Tags : Dispatched(d) => \A a \in 1..Len(actions) : inv[d][a].starts = 1
    /\ (proc = "running" /\ loopPc = "ranging" /\ msgChannel # <<>>)
          => ENABLED ReceiveDelivery

\* two actions loaded, both started for delivery 1, one of them still running
\* while delivery 2 has already been taken
C1_Witness ==
    /\ Len(actions) = 2
    /\ Dispatched(1)
    /\ inv[1][1].starts = 1 /\ inv[1][2].starts = 1
    /\ inv[1][1].state = "running"
    /\ Taken(2)

\* C2: under fair scheduling the only thing that keeps an OnMessage from
\* completing is its own hang or the end of the process: every delivery
\* waiting in the channel is taken (unless the connection drops first), and
\* for every taken delivery every loaded action's OnMessage is started and
\* returns, also when the OnMessage of another action hangs forever.
C2_NoActionBlocksAnother ==
    /\ \A d \in Tags :
          InChannel(d) ~> (Taken(d) \/ connLost \/ proc # "running")
    /\ \A d \in Tags, a \in Slots :
          (Taken(d) /\ Loaded(a))
              ~> (Returned(d, a) \/ inv[d][a].state = "hung" \/ proc # "running")

\* the first action hangs on delivery 1, the second action has completed
\* delivery 1 and delivery 2
C2_Witness ==
    /\ Len(actions) = 2
    /\ inv[1][1].state = "hung"
    /\ Returned(1, 2)
    /\ Returned(2, 2)

\* C3: once the connection is lost, Run eventually returns (or the process
\* has ended).
C3_DroppedConnectionEndsRun ==
    connLost ~> (pc = "returned" \/ proc # "running")

\* C4: with an empty user or an empty host no network operation is ever
\* performed, the session handles stay unset, Run never gets to the connection
\* steps or to consuming, and when Run has returned connectAMQP had failed
\* with the missing-credentials error.
C4_MissingCredentialsNoNetwork ==
    (pc # "new" /\ (user = "" \/ fqdn = "")) =>
        /\ netOps = <<>>
        /\ conn = "nil" /\ channel = "nil" /\ queue = ""
        /\ pc \in {"configured", "loading", "loaded", "returned"}
        /\ loopPc = "none" /\ delivered = 0
        /\ connectErr \in {"unset", "missing"}
        /\ pc = "returned" => connectErr = "missing"

\* Run has returned for a Reactor with a user but no host
C4_Witness ==
    /\ pc = "returned"
    /\ user # "" /\ fqdn = ""
    /\ connectErr = "missing"
    /\ netOps = <<>>

SetupSteps == <<"dial", "exchange", "queue", "bind">>
IsSetupStep(o) == o.op \in {"dial", "exchange", "queue", "bind"}
OpNames(ops) == [i \in 1..Len(ops) |-> ops[i].op]
IsPrefix(s, t) == Len(s) <= Len(t) /\ SubSeq(t, 1, Len(s)) = s

\* C5: the setup operations performed are, in this order, a prefix of dial,
\* exchange-declare, queue-declare, bind; a failed one is the last network
\* operation of the Run, connectAMQP has returned its error and Run has
\* returned, nothing was subscribed, and no OnMessage was started.
C5_SetupFailureStopsConnect ==
    /\ IsPrefix(OpNames(SelectSeq(netOps, IsSetupStep)), SetupSteps)
    /\ \A i \in 1..Len(netOps) :
          (IsSetupStep(netOps[i]) /\ ~netOps[i].ok) =>
              /\ i = Len(netOps)
              /\ connectErr = netOps[i].op
              /\ pc = "returned"
              /\ loopPc = "none" /\ delivered = 0
              /\ \A d \in Tags, a \in Slots : inv[d][a].starts = 0

\* the queue declaration failed after dial, channel and exchange succeeded
C5_Witness ==
    /\ Len(netOps) = 4
    /\ netOps[4] = Op("queue", FALSE)
    /\ pc = "returned"

\* entries of the parsed document, by what their action type says
TypeOf(entry) == Lookup(entry.body.action.m, "type").s
Recognised(entry) == TypeOf(entry) \in {"ci-call", "shell"}
VariantOf(entry) == IF TypeOf(entry) = "ci-call" THEN "http" ELSE "shell"
ValidDocument == ~parseErr /\ \A i \in 1..Len(data) : data[i] \in WellFormedEntries
AtLoopEnd == pc = "loading" /\ proc = "running" /\ idx > Len(data)

\* C6: when the loop of LoadActions has ended on a valid document, the number
\* of loaded Actions is the number of entries with a recognised type, and the
\* Actions are, in document order, of the variant their entry names and bound
\* to that entry's project, package, status and architecture.
C6_LoadedMatchesRecognisedEntries ==
    (AtLoopEnd /\ ValidDocument) =>
        LET kept == SelectSeq(data, Recognised)
        IN  /\ Len(actions) = Cardinality({i \in 1..Len(data) : Recognised(data[i])})
            /\ loaded = Len(actions)
            /\ Len(actions) = Len(kept)
            /\ \A i \in 1..Len(kept) :
                  /\ actions[i].kind = VariantOf(kept[i])
                  /\ actions[i].info.Project = kept[i].project
                  /\ actions[i].info.Package = kept[i].body.package.s
                  /\ actions[i].info.Status = kept[i].body.status.s
                  /\ actions[i].info.Architecture = kept[i].body.arch.s
                  /\ actions[i].info.Type = TypeOf(kept[i])

\* a two-entry document, shell then ci-call, fully loaded
C6_Witness ==
    /\ AtLoopEnd /\ ValidDocument
    /\ data = <<ShellEntry, CiEntry>>
    /\ Len(actions) = 2

\* C7: the loop iteration on a well-formed entry whose type is missing, empty
\* or unrecognised leaves the action list as it is, goes on to the next entry
\* and does not end the load.
C7_UntypedEntrySkipped ==
    [][(/\ pc = "loading" /\ proc = "running" /\ idx <= Len(data)
        /\ data[idx] \in WellFormedEntries /\ ~Recognised(data[idx])
        /\ proc' = "running")
       => (/\ actions' = actions
           /\ idx' = idx + 1
           /\ data' = data
           /\ pc' = "loading")]_vars

\* an entry without a type came first; the ci-call entry after it was loaded
C7_Witness ==
    /\ AtLoopEnd
    /\ data = <<NoTypeEntry, CiEntry>>
    /\ Len(actions) = 1 /\ actions[1].kind = "http"

\* C8: LoadActions never reaches its return with a document that could not
\* be parsed.
C8_UnparseableStopsLoad ==
    ~(AtLoopEnd /\ parseErr)

\* C9: LoadActions on a document that parsed never ends in a panic.
C9_MalformedEntrySkipped ==
    ~(pc = "loading" /\ ~parseErr /\ proc = "panicked")

\* C10: every delivery the bus has sent is acknowledged, taken or not,
\* handled or not; no delivery is presented twice (the tags waiting in the
\* channel are distinct and none of them was taken before); and once the
\* process has stopped, nothing is delivered, taken, started or completed any
\* more, so what was pending stays acknowledged and unhandled.
C10_AckAtReceiptNoRedelivery ==
    /\ [](/\ acked = 1..delivered
          /\ \A d \in Tags : (InChannel(d) \/ Taken(d)) => d \in acked
          /\ \A d \in Tags : InChannel(d) => ~Taken(d)
          /\ \A i, j \in 1..Len(msgChannel) :
                msgChannel[i].tag = msgChannel[j].tag => i = j
          /\ \A d \in Tags : Taken(d) => dispatch[d].delivery.tag = d)
    /\ [][proc # "running" =>
             (acked' = acked /\ msgChannel' = msgChannel /\ delivered' = delivered
              /\ dispatch' = dispatch /\ inv' = inv)]_vars

\* the process was killed with delivery 1 acknowledged, one OnMessage for it
\* still running and the other not even started
C10_Witness ==
    /\ proc = "killed"
    /\ 1 \in acked
    /\ Len(actions) = 2
    /\ inv[1][1].state = "running"
    /\ inv[1][2].state = "none"

Failed(d, a) == inv[d][a].state = "failed"
\* the step ends the OnMessage of action a for delivery d
Finishes(d, a) == inv[d][a].state = "running" /\ inv'[d][a].state \in {"done", "failed", "hung"}

\* C11: a failed effect touches nothing but its own invocation. The step
\* that ends an OnMessage, failed or not, leaves the main goroutine, the
\* process, the receive loop, the list of actions, the channel, every
\* onDelivery and every other invocation as they were; and with a failed
\* invocation on record Run is still blocked in consume, the onDelivery of
\* that delivery has started or can still start every loaded action, a waiting
\* delivery can still be taken, and every later delivery taken is fanned out
\* to every loaded action.
C11_FailedEffectStaysLocal ==
    /\ [][\A d \in Tags, a \in Slots :
            Finishes(d, a) =>
                /\ pc' = pc /\ proc' = proc /\ runErr' = runErr
                /\ loopPc' = loopPc /\ msgChannel' = msgChannel
                /\ actions' = actions /\ dispatch' = dispatch
                /\ sessVars' = sessVars /\ netOps' = netOps
                /\ \A e \in Tags, b \in Slots :
                      <<e, b>> # <<d, a>> => inv'[e][b] = inv[e][b]]_vars
    /\ [](\A d \in Tags, a \in Slots :
            Failed(d, a) =>
                /\ pc = "blocked" /\ runErr = "unset"
                /\ proc \in {"running", "killed"}
                /\ \A e \in d..MaxDeliveries :
                      /\ Dispatched(e) => \A b \in 1..Len(actions) : inv[e][b].starts = 1
                      /\ (Taken(e) /\ ~Dispatched(e) /\ proc = "running")
                            => ENABLED onDelivery(e)
                /\ (proc = "running" /\ loopPc = "ranging" /\ msgChannel # <<>>)
                      => ENABLED ReceiveDelivery)

\* the first action failed on delivery 1; the second action was still started
\* for delivery 1, and both actions have handled delivery 2
C11_Witness ==
    /\ Len(actions) = 2
    /\ Failed(1, 1)
    /\ inv[1][2].starts = 1
    /\ Dispatched(2)
    /\ inv[2][1].state = "done" /\ Returned(2, 2)

\* the effect of action a for delivery d has been invoked and OnMessage has
\* returned or hangs in it
Ended(d, a) == inv[d][a].state \in {"done", "failed", "hung"}
\* every criterion of the action is declared and equals the event's field
AllFourEqual(info, event) ==
    /\ info.Project = event.Project
    /\ info.Package = event.Package
    /\ info.Status = event.Status
    /\ info.Architecture = event.Architecture
Declared(info) ==
    info.Project # "" /\ info.Package # "" /\ info.Status # "" /\ info.Architecture # ""

\* C12: every taken event is handed to every loaded action once its
\* onDelivery has run, and an action with four declared criteria whose
\* OnMessage has ended has invoked its effect exactly once when the event
\* agrees with all four criteria and not at all when it differs in one of
\* them; never more than once; of two actions for the same project with
\* different status criteria, where the event's status is that of the first
\* only, the first invokes its effect once and the second never.
C12_MatchThenAct ==
    /\ \A d \in Tags :
          Dispatched(d) => \A a \in 1..Len(actions) : inv[d][a].starts = 1
    /\ \A d \in Tags, a \in Slots : inv[d][a].effects <= 1
    /\ \A d \in Tags, a \in 1..Len(actions) :
          (Ended(d, a) /\ Declared(actions[a].info)) =>
              inv[d][a].effects =
                  IF AllFourEqual(actions[a].info, dispatch[d].delivery.body) THEN 1 ELSE 0
    /\ \A d \in Tags, a \in 1..Len(actions), b \in 1..Len(actions) :
          (/\ Ended(d, a) /\ Ended(d, b)
           /\ actions[a].info.Project = actions[b].info.Project
           /\ actions[a].info.Status # actions[b].info.Status
           /\ actions[b].info.Status # ""
           /\ inv[d][a].effects = 1)
              => inv[d][b].effects = 0

\* both actions were handed an event that agrees with all criteria of the
\* first and differs from the second in the status only: the first has invoked
\* its effect, the second has returned without
C12_Witness ==
    /\ Len(actions) = 2
    /\ Declared(actions[1].info)
    /\ actions[1].info.Project = "proj2" /\ actions[1].info.Status = "failed"
    /\ Dispatched(1)
    /\ Ended(1, 1) /\ inv[1][1].effects = 1
    /\ Ended(1, 2) /\ inv[1][2].effects = 0 /\ inv[1][2].starts = 1

\* the attempt to open the channel on the dialled connection failed
ChannelOpenFailed == \E i \in 1..Len(netOps) : netOps[i] = Op("channel", FALSE)

\* C13: once opening the channel has failed, connectAMQP has returned an
\* error at that step and Run has returned: Run is never found on its way to
\* the exchange declaration with the channel unopened, and the process does
\* not crash.
C13_ChannelFailureIsFatalConnectError ==
    ChannelOpenFailed =>
        /\ pc = "returned"
        /\ connectErr \notin {"unset", "nil"}
        /\ proc # "panicked"

\* C14: nothing limits the work in flight. However many OnMessage goroutines
\* are in flight, a waiting delivery can be taken by the receive loop and an
\* onDelivery that has actions left can start the next one; an invocation in
\* flight stays in flight until its own OnMessage ends (it is not cancelled,
\* dropped or started over), and a delivery once taken stays taken.
C14_NoCapNoBackpressure ==
    /\ [](/\ (proc = "running" /\ loopPc = "ranging" /\ msgChannel # <<>>)
                => ENABLED ReceiveDelivery
          /\ \A d \in Tags :
                (proc = "running" /\ Taken(d) /\ ~Dispatched(d)) => ENABLED onDelivery(d)
          /\ \A d \in Tags, a \in Slots :
                inv[d][a].starts > 0 => (<<d, a>> \in InFlight \/ Returned(d, a)))
    /\ [][/\ \A d \in Tags, a \in Slots :
               <<d, a>> \in InFlight =>
                   /\ inv'[d][a].state \in {"running", "hung", "done", "failed"}
                   /\ inv[d][a].state = "hung" => inv'[d][a].state = "hung"
                   /\ inv'[d][a].starts = inv[d][a].starts
                   /\ inv'[d][a].arg = inv[d][a].arg
          /\ \A d \in Tags :
               Taken(d) => (dispatch'[d].idx >= dispatch[d].idx
                            /\ dispatch'[d].delivery = dispatch[d].delivery)]_vars

\* two actions, one delivery taken, both OnMessage goroutines in flight (one
\* of them hanging), and the next delivery waiting for the receive loop
C14_Witness ==
    /\ Len(actions) = 2
    /\ Dispatched(1)
    /\ Cardinality(InFlight) = Len(actions)
    /\ Cardinality(Hung) = 1
    /\ msgChannel # <<>> /\ Head(msgChannel).tag = 2
    /\ ENABLED ReceiveDelivery

\* every delivery sent was taken and every OnMessage started for them is in
\* flight: MaxDeliveries times the number of actions
C14_WitnessFull ==
    /\ Len(actions) = 2
    /\ \A d \in Tags : Dispatched(d)
    /\ Cardinality(InFlight) = MaxDeliveries * Len(actions)

Dials == {i \in 1..Len(netOps) : netOps[i].op = "dial"}

\* C15: a Run dials at most once, whether the dial failed, connect failed
\* later, connect succeeded, or the connection dropped afterwards, and once
\* Run has left the connect phase no step dials again; an OnMessage is started
\* at most once per action and delivery, and no step starts again one that
\* was started, whatever became of it.
C15_NothingRetried ==
    /\ [](/\ Cardinality(Dials) <= 1
          /\ \A d \in Tags, a \in Slots : inv[d][a].starts <= 1)
    /\ [][/\ (Dials # {}) => netOps' \in {netOps} \cup
                                 {Append(netOps, Op(o, r)) :
                                     o \in {"channel", "exchange", "queue", "bind", "consume"},
                                     r \in BOOLEAN} \cup
                                 {netOps \o <<Op("consume", FALSE), Op("close", TRUE)>>}
          /\ \A d \in Tags, a \in Slots :
                inv[d][a].starts = 1 => inv'[d][a].starts = 1]_vars

\* the connection dropped after a failed and a hanging OnMessage for
\* delivery 1, the receive loop has ended, and there was one dial only
C15_Witness ==
    /\ connLost /\ loopPc = "exited"
    /\ Cardinality(Dials) = 1
    /\ Len(actions) = 2
    /\ Failed(1, 1) /\ inv[1][1].starts = 1
    /\ inv[1][2].state = "hung" /\ inv[1][2].starts = 1

\* Run is at or past the call of connectAMQP
InRun == pc \in {"loaded", "dial", "channel", "exchange", "queue", "bind", "consume",
                 "blocked", "returned"}

\* C16: the action list changes only in a step of the loop of LoadActions,
\* which appends to it; from the call of connectAMQP on no step changes its
\* length, order or elements, and every onDelivery ranges over that list. The
\* connection handle changes only in the dial step (and by being closed when
\* Run returns), the channel handle only in the channel step, the queue only
\* in the queue declaration.
C16_WritersOfReactorState ==
    /\ [][/\ actions' # actions =>
                (pc = "loading" /\ pc' = "loading" /\ IsPrefix(actions, actions'))
          /\ InRun => actions' = actions
          /\ conn' # conn =>
                \/ pc = "dial"
                \/ pc = "consume" /\ pc' = "returned" /\ conn = "open" /\ conn' = "closed"
          /\ channel' # channel => pc = "channel"
          /\ queue' # queue => pc = "queue"]_vars
    /\ [](\A d \in Tags :
            Taken(d) =>
                /\ InRun
                /\ \A a \in Slots : inv[d][a].starts > 0 => Loaded(a)
                /\ Dispatched(d) => \A a \in 1..Len(actions) : inv[d][a].starts > 0)

\* connected with all three handles set, and two deliveries fanned out to
\* the two loaded actions
C16_Witness ==
    /\ Len(actions) = 2
    /\ conn = "open" /\ channel = "open" /\ queue # ""
    /\ Dispatched(1) /\ Dispatched(2)
    /\ inv[2][2].starts = 1

\* C17: the argument of every OnMessage started by the onDelivery of
\* delivery d points to that onDelivery's own copy, which holds delivery d
\* with the body the bus sent; the copy never changes once it is made, however
\* many deliveries the receive loop takes afterwards; and the outcome of an
\* OnMessage is the outcome for its own delivery.
C17_ObservesOwnDelivery ==
    /\ [](\A d \in Tags, a \in Slots :
            inv[d][a].starts > 0 =>
                /\ inv[d][a].arg = d
                /\ Observed(d, a) = dispatch[d].delivery
                /\ Observed(d, a).tag = d
                /\ Observed(d, a).body \in Bodies
                /\ Failed(d, a) => EffectFails(dispatch[d].delivery))
    /\ [][\A d \in Tags :
            Taken(d) => dispatch'[d].delivery = dispatch[d].delivery]_vars

\* the receive loop has gone on to delivery 2 and both its OnMessage have
\* ended, while the second OnMessage of delivery 1 is running: what it reads
\* is delivery 1
C17_Witness ==
    /\ Len(actions) = 2
    /\ Dispatched(2) /\ Returned(2, 1) /\ Returned(2, 2)
    /\ inv[1][2].state = "running"
    /\ Observed(1, 2).tag = 1

\* C18: deliveries are taken in the order they were sent, but their handling
\* is not ordered: when two deliveries have been taken and the onDelivery of
\* the later one has actions left, it can start its next OnMessage whatever
\* the onDelivery of the earlier one has or has not started, and the earlier
\* one can as well.
C18_HandlingOrderNotDeliveryOrder ==
    /\ \A d1 \in Tags, d2 \in Tags : (d1 < d2 /\ Taken(d2)) => Taken(d1)
    /\ \A d1 \in Tags, d2 \in Tags :
          (d1 < d2 /\ proc = "running" /\ Taken(d1) /\ Taken(d2)) =>
              /\ ~Dispatched(d2) => ENABLED onDelivery(d2)
              /\ ~Dispatched(d1) => ENABLED onDelivery(d1)

\* delivery 1 was taken before delivery 2, and the first action's OnMessage
\* has been started for delivery 2 and not yet for delivery 1
C18_Witness ==
    /\ Len(actions) >= 1
    /\ Taken(1) /\ Taken(2)
    /\ inv[2][1].starts = 1
    /\ inv[1][1].starts = 0
    /\ proc = "running" /\ ENABLED onDelivery(1)

Closes == {i \in 1..Len(netOps) : netOps[i].op = "close"}
ConnectFailed == connectErr \in {"missing", "dial", "exchange", "queue", "bind"}

\* C19: Run returns nil, whatever error connectAMQP or consume returned; until
\* it returns nothing is reported and the connection is not closed; when it
\* has returned, the connection has been closed - once, as the last network
\* operation, after the failed subscription - exactly when connectAMQP had
\* succeeded, and after a failed connectAMQP the connection was not closed and
\* the failed step was the last thing done on the network.
C19_RunReturnsNil ==
    /\ pc # "returned" =>
          /\ runErr = "unset"
          /\ Closes = {} /\ conn # "closed"
    /\ pc = "returned" =>
          /\ runErr = "nil"
          /\ connectErr = "nil" \/ ConnectFailed
          /\ connectErr = "nil" <=> conn = "closed"
          /\ connectErr = "nil" <=> Closes = {Len(netOps)}
          /\ connectErr = "nil" =>
                (Len(netOps) >= 2 /\ netOps[Len(netOps) - 1] = Op("consume", FALSE))
          /\ ConnectFailed =>
                /\ Closes = {}
                /\ conn = (IF connectErr \in {"missing", "dial"} THEN "nil" ELSE "open")
                /\ connectErr # "missing" => netOps[Len(netOps)] = Op(connectErr, FALSE)
                /\ loopPc = "none"

\* connectAMQP succeeded, the subscription failed, and Run has returned nil
\* with the connection closed
C19_Witness ==
    /\ pc = "returned"
    /\ connectErr = "nil"
    /\ netOps[Len(netOps) - 1] = Op("consume", FALSE)
    /\ conn = "closed"
    /\ runErr = "nil"

\* connectAMQP failed at the bind step and Run has returned nil, leaving the
\* dialled connection as it was
C19_WitnessConnectFailed ==
    /\ pc = "returned"
    /\ connectErr = "bind"
    /\ conn = "open"
    /\ runErr = "nil"
====
